---- MODULE Spec2Model ----
(***************************************************************************)
(* Research Funding Graph Explorer (src/app2.py, src/neo4j_conn.py).       *)
(*                                                                         *)
(* One run of the Streamlit script is: the page header, the chosen view's  *)
(* header, run_cypher materialising the rows of the view's query, the      *)
(* empty check, the node/edge assembly loop and build_and_render_network.  *)
(* Every user interaction re-runs the script from the top.                 *)
(***************************************************************************)
EXTENDS Integers, Sequences, FiniteSets, TLC

\* ---------------------------------------------------------------- bounds
\* The max_rows slider runs 20..500 in steps of 20 (app2.py 39-46); the
\* model scales it to 1..MaxRows, which also bounds the length of a result.
MaxRows == 2
\* Entity identifiers of grants and organizations are drawn from 1..MaxId.
MaxId == 2

\* ------------------------------------------------------------- constants
\* LIMIT 10 of the view 1 query.
TopN == 10
\* Python's None in an id column.
NULL == 0
\* Python's None in a name column (names are strings).
NoLabel == "<null>"

Views == {"top10", "cancer", "ecosystem", "multiorg", "mankato"}
GraphViews == Views \ {"top10"}
Caps == 1..MaxRows
Labels == {NoLabel, "", "A"}

VARIABLES view, max_rows, pc, rows, i, nodes, edges, shown, called, carried

vars == <<view, max_rows, pc, rows, i, nodes, edges, shown, called, carried>>

\* ------------------------------------------------------- rows of a query
IdCols(v) ==
  CASE v = "cancer"    -> {"pi_id", "grant_id", "org_id"}
    [] v = "multiorg"  -> {"pi_id", "grant_id", "org_id"}
    [] v = "ecosystem" -> {"funder_id", "grant_id", "pi_id", "org_id", "system_id", "theme_id"}
    [] v = "mankato"   -> {"pi_id", "grant_id", "funder_id", "org_id"}
    [] OTHER           -> {}

\* The row of view v for grant g held at organization o, every name column
\* holding lab, with the id columns in absent (and their names) null.
\* Columns the view's RETURN clause does not list are never read.
Row(v, g, o, lab, absent) ==
  LET has(c) == c \in IdCols(v) /\ c \notin absent
      id(c, n) == IF has(c) THEN n ELSE NULL
      nm(c) == IF has(c) THEN lab ELSE NoLabel
  IN [pi_id |-> id("pi_id", g + 1),          pi_name |-> nm("pi_id"),
      grant_id |-> id("grant_id", g),        grant_title |-> nm("grant_id"),
      org_id |-> id("org_id", 10 + o),       org_name |-> nm("org_id"),
      funder_id |-> id("funder_id", 21),     funder_name |-> nm("funder_id"),
      system_id |-> id("system_id", 31),     system_name |-> nm("system_id"),
      theme_id |-> id("theme_id", 41),       theme_name |-> nm("theme_id"),
      frascati_theme |-> IF has("theme_id") /\ g = 1 THEN "F" ELSE NoLabel,
      grants_led |-> NULL]

\* A row of view 1: a PI name and a grant count.
TopRow(n) ==
  [Row("top10", 1, 1, NoLabel, {}) EXCEPT !.pi_name = "A", !.grants_led = n]

\* The rows a query of view v may return.
Universe(v) ==
  IF v = "top10" THEN {TopRow(n) : n \in 1..MaxId}
  ELSE UNION {{Row(v, g, o, lab, {}) : g \in {1, o}, lab \in Labels} : o \in 1..MaxId}
       \cup {Row(v, 1, o, "B", {c}) : c \in IdCols(v), o \in 1..MaxId}
       \cup {Row(v, 1, 1, "B", IdCols(v))}

\* The rows drawn when the names nodes/edges outlive a run.
CarryUniverse(v) ==
  IF v = "top10" THEN {TopRow(1)}
  ELSE {Row(v, 1, o, "A", {}) : o \in 1..MaxId} \cup {Row(v, 1, 1, "B", {"grant_id"})}

\* ------------------------------------------------------------ add_node
\* Python truthiness of a name: None and "" are falsy.
Truthy(s) == s \notin {NoLabel, ""}

\* `label` stored as it comes, without the `or group` fallback.
Or_first(a, b) == a

\* Python's `a or b`.
Or(a, b) == IF Truthy(a) THEN a ELSE b

\* add_node without its `node_id is None` return.
add_node_unchecked(ns, node_id, label, group) ==
  IF node_id \in DOMAIN ns THEN ns
  ELSE ns @@ (node_id :> [id |-> node_id, label |-> Or(label, group), group |-> group])

\* add_node without its `node_id not in nodes` test: the last write wins.
add_node_overwrite(ns, node_id, label, group) ==
  IF node_id = NULL THEN ns
  ELSE [k \in (DOMAIN ns) \cup {node_id} |->
          IF k = node_id THEN [id |-> node_id, label |-> Or(label, group), group |-> group]
          ELSE ns[k]]

add_node(ns, node_id, label, group) ==
  IF node_id = NULL THEN ns
  ELSE IF node_id \in DOMAIN ns THEN ns
  ELSE ns @@ (node_id :> [id |-> node_id, label |-> Or(label, group), group |-> group])

\* An append that drops a pair the list already holds.
AppendEdge_dedup(es, src, dst) ==
  IF \E k \in 1..Len(es) : es[k] = <<src, dst>> THEN es ELSE Append(es, <<src, dst>>)

\* edges.append((src, dst))
AppendEdge(es, src, dst) == Append(es, <<src, dst>>)

\* `if a is not None and b is not None: edges.append((src, dst))`
AppendIfBoth(es, a, b, src, dst) ==
  IF a # NULL /\ b # NULL THEN AppendEdge(es, src, dst) ELSE es

\* --------------------------------------------- the loop body of each view
CancerNodes(ns, r) ==
  LET n1 == add_node(ns, r.pi_id, r.pi_name, "pi")
      n2 == add_node(n1, r.grant_id, r.grant_title, "grant")
  IN add_node(n2, r.org_id, r.org_name, "org")

CancerEdges(es, r) ==
  AppendEdge(AppendEdge(es, r.pi_id, r.grant_id), r.grant_id, r.org_id)

EcosystemNodes(ns, r) ==
  LET n1 == add_node(ns, r.funder_id, r.funder_name, "funder")
      n2 == add_node(n1, r.grant_id, r.grant_title, "grant")
      n3 == add_node(n2, r.pi_id, r.pi_name, "pi")
      n4 == add_node(n3, r.org_id, r.org_name, "org")
      n5 == add_node(n4, r.system_id, r.system_name, "system")
      label == Or(r.theme_name, Or(r.frascati_theme, "Theme"))
  IN IF r.theme_id # NULL THEN add_node(n5, r.theme_id, label, "theme") ELSE n5

EcosystemEdges(es, r) ==
  LET e1 == AppendIfBoth(es, r.funder_id, r.grant_id, r.funder_id, r.grant_id)
      e2 == AppendIfBoth(e1, r.pi_id, r.grant_id, r.pi_id, r.grant_id)
      e3 == AppendIfBoth(e2, r.org_id, r.grant_id, r.grant_id, r.org_id)
      e4 == AppendIfBoth(e3, r.system_id, r.org_id, r.org_id, r.system_id)
  IN AppendIfBoth(e4, r.theme_id, r.grant_id, r.grant_id, r.theme_id)

MultiorgNodes(ns, r) ==
  LET n1 == add_node(ns, r.pi_id, r.pi_name, "pi")
      n2 == add_node(n1, r.grant_id, r.grant_title, "grant")
  IN add_node(n2, r.org_id, r.org_name, "org")

MultiorgEdges(es, r) ==
  AppendEdge(AppendEdge(es, r.pi_id, r.grant_id), r.grant_id, r.org_id)

MankatoNodes(ns, r) ==
  LET n1 == add_node(ns, r.pi_id, r.pi_name, "pi")
      n2 == add_node(n1, r.grant_id, r.grant_title, "grant")
      n3 == add_node(n2, r.funder_id, r.funder_name, "funder")
  IN add_node(n3, r.org_id, r.org_name, "org")

MankatoEdges(es, r) ==
  LET e1 == AppendEdge(es, r.pi_id, r.grant_id)
      e2 == AppendEdge(e1, r.grant_id, r.funder_id)
  IN AppendEdge(e2, r.grant_id, r.org_id)

RowNodes(v, ns, r) ==
  CASE v = "cancer"    -> CancerNodes(ns, r)
    [] v = "ecosystem" -> EcosystemNodes(ns, r)
    [] v = "multiorg"  -> MultiorgNodes(ns, r)
    [] v = "mankato"   -> MankatoNodes(ns, r)

RowEdges(v, es, r) ==
  CASE v = "cancer"    -> CancerEdges(es, r)
    [] v = "ecosystem" -> EcosystemEdges(es, r)
    [] v = "multiorg"  -> MultiorgEdges(es, r)
    [] v = "mankato"   -> MankatoEdges(es, r)

\* ------------------------------------------------------------ one run
\* What the script has put on the page before the view's query runs:
\* st.title, the introduction, and the view's own **View:** paragraph.
PageHeader == <<"title", "intro", "view_md">>

\* A query text without the slider value: the store's own maximum applies.
Limit_fixed(v, cap) == IF v = "top10" THEN TopN ELSE MaxRows

\* The LIMIT clause of the view's query: the slider value spliced into the
\* text of the graph views, the literal 10 in view 1.
Limit(v, cap) == IF v = "top10" THEN TopN ELSE cap

\* An empty check that never takes the warning branch.
IsEmpty_never(rs) == FALSE

\* `not rows`
IsEmpty(rs) == rs = <<>>

\* The branch without `nodes = {}`: the mapping of the previous run is reused.
StaleNodes == nodes

\* `nodes = {}` and `edges = []`
FreshNodes == <<>>

FreshEdges == <<>>

Init ==
  /\ view = "top10"
  /\ max_rows \in Caps
  /\ pc = "query"
  /\ rows = <<>>
  /\ i = 0
  /\ nodes = <<>>
  /\ edges = <<>>
  /\ shown = PageHeader
  /\ called = FALSE
  /\ carried = FALSE

\* A widget interaction re-runs the script from the top in a fresh
\* namespace: no name of the previous run is bound.
Rerun ==
  /\ pc = "done"
  /\ \E v \in Views, cap \in Caps : view' = v /\ max_rows' = cap
  /\ pc' = "query"
  /\ rows' = <<>>
  /\ i' = 0
  /\ nodes' = <<>>
  /\ edges' = <<>>
  /\ shown' = PageHeader
  /\ called' = FALSE
  /\ carried' = FALSE

\* The same interaction when the objects bound to nodes and edges by the
\* previous run are still reachable when the view's branch starts.
RerunCarry ==
  /\ pc = "done"
  /\ \E v \in Views, cap \in Caps : view' = v /\ max_rows' = cap
  /\ pc' = "query"
  /\ rows' = <<>>
  /\ i' = 0
  /\ shown' = PageHeader
  /\ called' = FALSE
  /\ carried' = (nodes # <<>> \/ edges # <<>>)
  /\ UNCHANGED <<nodes, edges>>

\* run_cypher: the store yields one more record of the result, at most
\* LIMIT of them.
Fetch(universe) ==
  /\ pc = "query"
  /\ Len(rows) < Limit(view, max_rows)
  /\ Len(rows) < MaxRows
  /\ \E r \in universe : rows' = Append(rows, r)
  /\ UNCHANGED <<view, max_rows, pc, i, nodes, edges, shown, called, carried>>

FetchRow == Fetch(Universe(view))

FetchRowCarry == Fetch(CarryUniverse(view))

\* run_cypher returns the materialised list.
QueryReturn ==
  /\ pc = "query"
  /\ pc' = "check"
  /\ UNCHANGED <<view, max_rows, rows, i, nodes, edges, shown, called, carried>>

\* The driver raises (store unreachable, query rejected): nothing catches
\* it, the run ends and Streamlit shows the exception.
QueryFail ==
  /\ pc = "query"
  /\ rows' = <<>>
  /\ shown' = Append(shown, "exception")
  /\ pc' = "done"
  /\ UNCHANGED <<view, max_rows, i, nodes, edges, called, carried>>

\* View 1: warning, or success + dataframe + bar chart.
TopView ==
  /\ pc = "check"
  /\ view = "top10"
  /\ shown' = IF IsEmpty(rows) THEN Append(shown, "warning_norows")
              ELSE shown \o <<"success", "dataframe", "bar_chart">>
  /\ pc' = "done"
  /\ UNCHANGED <<view, max_rows, rows, i, nodes, edges, called, carried>>

\* Views 2-5: warning, or success and the start of the assembly.
GraphCheck ==
  /\ pc = "check"
  /\ view \in GraphViews
  /\ IF IsEmpty(rows)
       THEN /\ shown' = Append(shown, "warning_norows")
            /\ pc' = "done"
            /\ UNCHANGED <<nodes, edges>>
       ELSE /\ shown' = Append(shown, "success")
            /\ nodes' = FreshNodes
            /\ edges' = FreshEdges
            /\ pc' = "loop"
  /\ UNCHANGED <<view, max_rows, rows, i, called, carried>>

\* One iteration of `for r in rows`.
LoopBody ==
  /\ pc = "loop"
  /\ i < Len(rows)
  /\ nodes' = RowNodes(view, nodes, rows[i + 1])
  /\ edges' = RowEdges(view, edges, rows[i + 1])
  /\ i' = i + 1
  /\ UNCHANGED <<view, max_rows, pc, rows, shown, called, carried>>

\* build_and_render_network: the "no nodes" warning, or the network, its
\* subheader and caption.
BuildAndRender ==
  /\ pc = "loop"
  /\ i = Len(rows)
  /\ called' = TRUE
  /\ shown' = IF nodes = <<>> THEN Append(shown, "warning_nonodes")
              ELSE shown \o <<"subheader", "caption", "graph">>
  /\ pc' = "done"
  /\ UNCHANGED <<view, max_rows, rows, i, nodes, edges, carried>>

\* build_and_render_network raising while it writes and reads graph.html.
RenderFail ==
  /\ pc = "loop"
  /\ i = Len(rows)
  /\ nodes # <<>>
  /\ called' = TRUE
  /\ shown' = Append(shown, "exception")
  /\ pc' = "done"
  /\ UNCHANGED <<view, max_rows, rows, i, nodes, edges, carried>>

Next ==
  \/ Rerun
  \/ FetchRow
  \/ QueryReturn
  \/ QueryFail
  \/ TopView
  \/ GraphCheck
  \/ LoopBody
  \/ BuildAndRender
  \/ RenderFail

Spec == Init /\ [][Next]_vars

NextCarry ==
  \/ RerunCarry
  \/ FetchRowCarry
  \/ QueryReturn
  \/ QueryFail
  \/ TopView
  \/ GraphCheck
  \/ LoopBody
  \/ BuildAndRender
  \/ RenderFail

SpecCarry == Init /\ [][NextCarry]_vars

\* ===================================================================
\* Properties
\* ===================================================================

\* The declared entity columns of each graph view, in the order the loop
\* body adds them: <<id column, label column, group>>.
ColumnSpec(v) ==
  CASE v \in {"cancer", "multiorg"} ->
         << <<"pi_id", "pi_name", "pi">>, <<"grant_id", "grant_title", "grant">>,
            <<"org_id", "org_name", "org">> >>
    [] v = "ecosystem" ->
         << <<"funder_id", "funder_name", "funder">>, <<"grant_id", "grant_title", "grant">>,
            <<"pi_id", "pi_name", "pi">>, <<"org_id", "org_name", "org">>,
            <<"system_id", "system_name", "system">>, <<"theme_id", "theme_name", "theme">> >>
    [] v = "mankato" ->
         << <<"pi_id", "pi_name", "pi">>, <<"grant_id", "grant_title", "grant">>,
            <<"funder_id", "funder_name", "funder">>, <<"org_id", "org_name", "org">> >>
    [] OTHER -> <<>>

\* The declared edge endpoint pairs of each graph view, in order.
EdgeSpec(v) ==
  CASE v \in {"cancer", "multiorg"} ->
         << <<"pi_id", "grant_id">>, <<"grant_id", "org_id">> >>
    [] v = "ecosystem" ->
         << <<"funder_id", "grant_id">>, <<"pi_id", "grant_id">>, <<"grant_id", "org_id">>,
            <<"org_id", "system_id">>, <<"grant_id", "theme_id">> >>
    [] v = "mankato" ->
         << <<"pi_id", "grant_id">>, <<"grant_id", "funder_id">>, <<"grant_id", "org_id">> >>
    [] OTHER -> <<>>

\* The assembly of this run has started: nodes and edges are what the loop
\* made of the first i rows.
InAssembly == view \in GraphViews /\ (pc = "loop" \/ (pc = "done" /\ called))

\* The assembly of this run is complete.
Assembled == InAssembly /\ i = Len(rows)

Consumed == SubSeq(rows, 1, i)

Elements(seq) == {seq[k] : k \in 1..Len(seq)}

BothNonNull(e) == e[1] # NULL /\ e[2] # NULL

\* The places <<row, column>> where id occurs among the consumed rows.
Occ(id) ==
  LET cs == ColumnSpec(view)
  IN {p \in (1..i) \X (1..Len(cs)) : rows[p[1]][cs[p[2]][1]] = id}

Before(p, q) == p[1] < q[1] \/ (p[1] = q[1] /\ p[2] <= q[2])

\* The first occurrence of id in row arrival order, then column order.
FirstOcc(id) ==
  LET occ == Occ(id) IN CHOOSE p \in occ : \A q \in occ : Before(p, q)

NonEmpty(s) == s # NoLabel /\ s # ""

\* The label the code stores for a node added from column col of row r.
StoredLabel(r, col) ==
  IF col[3] = "theme"
    THEN IF NonEmpty(r.theme_name) THEN r.theme_name
         ELSE IF NonEmpty(r.frascati_theme) THEN r.frascati_theme
         ELSE "Theme"
    ELSE IF NonEmpty(r[col[2]]) THEN r[col[2]] ELSE col[3]

\* The label the specification gives it: the group name when the label
\* column is missing, the label column otherwise.
ClaimedLabel(r, col) == IF r[col[2]] = NoLabel THEN col[3] ELSE r[col[2]]

\* The first declared column of row r that holds id.
FirstCol(r, id) ==
  CHOOSE k \in 1..Len(ColumnSpec(view)) :
    /\ r[ColumnSpec(view)[k][1]] = id
    /\ \A m \in 1..(k - 1) : r[ColumnSpec(view)[m][1]] # id

NoNullNode ==
  /\ NULL \notin DOMAIN nodes
  /\ \A k \in DOMAIN nodes : nodes[k].id # NULL /\ nodes[k].id = k

\* A row with a null id in a declared column has been consumed and the
\* node set holds the row's other entities.
NullIdConsumed ==
  /\ InAssembly
  /\ nodes # <<>>
  /\ \E j \in 1..i : \E c \in IdCols(view) : rows[j][c] = NULL

\* C4: every node carries the group and the label of the first occurrence
\* of its id among the rows consumed so far, so no later add_node with
\* the same id changes it.
FirstWriteWins ==
  InAssembly =>
    \A id \in DOMAIN nodes :
      /\ Occ(id) # {}
      /\ LET p == FirstOcc(id)
             col == ColumnSpec(view)[p[2]]
         IN /\ nodes[id].group = col[3]
            /\ nodes[id].label = StoredLabel(rows[p[1]], col)

\* An id has occurred twice, the later occurrence with another label or
\* group than the first.
LaterDuplicateDiffers ==
  /\ InAssembly
  /\ \E id \in DOMAIN nodes : \E q \in Occ(id) :
       LET p == FirstOcc(id)
           cp == ColumnSpec(view)[p[2]]
           cq == ColumnSpec(view)[q[2]]
       IN /\ q # p
          /\ \/ cp[3] # cq[3]
             \/ StoredLabel(rows[p[1]], cp) # StoredLabel(rows[q[1]], cq)

RECURSIVE FoldNodes(_, _), FoldEdges(_, _)
FoldNodes(v, rs) ==
  IF rs = <<>> THEN <<>>
  ELSE RowNodes(v, FoldNodes(v, SubSeq(rs, 1, Len(rs) - 1)), rs[Len(rs)])

FoldEdges(v, rs) ==
  IF rs = <<>> THEN <<>>
  ELSE RowEdges(v, FoldEdges(v, SubSeq(rs, 1, Len(rs) - 1)), rs[Len(rs)])

\* C5: the node set and the edge list of an invocation are the assembly,
\* from empty, of that invocation's rows alone, whatever earlier
\* invocations left behind; so equal rows give equal results.
FunctionOfRowsOnly ==
  InAssembly =>
    /\ nodes = FoldNodes(view, Consumed)
    /\ edges = FoldEdges(view, Consumed)

\* An invocation that began with the previous invocation's nodes or edges
\* still bound has rendered its own graph.
RenderedAfterEarlierRun ==
  /\ carried
  /\ InAssembly
  /\ pc = "done"
  /\ i >= 1
  /\ nodes # <<>>

\* C6: when the query returns no rows the page shows exactly the one
\* "no results" notice after the header, no assembly has run and
\* build_and_render_network has not been called.
EmptyResultNotice ==
  (pc = "done" /\ rows = <<>> /\ "exception" \notin Elements(shown)) =>
    /\ shown = Append(PageHeader, "warning_norows")
    /\ ~called
    /\ i = 0
    /\ nodes = <<>>
    /\ edges = <<>>

\* A graph view's query returned no rows and the run has ended.
EmptyGraphViewDone ==
  /\ pc = "done"
  /\ view \in GraphViews
  /\ rows = <<>>
  /\ shown[Len(shown)] = "warning_norows"

\* C7: in a graph view the assembly loop never iterates over more rows
\* than the configured cap.
RowLimitRespected == view \in GraphViews => i <= max_rows

\* The loop has consumed exactly max_rows rows, below what the store
\* could otherwise deliver.
CapReached ==
  /\ view \in GraphViews
  /\ pc = "done"
  /\ called
  /\ i = max_rows
  /\ max_rows < MaxRows

\* C8: a run that ends in an error or empty notice shows nothing but that
\* one notice after the header.
NoPartialRendering ==
  (pc = "done" /\ shown[Len(shown)] \in {"warning_norows", "warning_nonodes", "exception"})
    => shown = Append(PageHeader, shown[Len(shown)])

\* The non-null ids in declared id columns of the rows rs.
IdsIn(v, rs) ==
  {rs[j][ColumnSpec(v)[k][1]] : j \in 1..Len(rs), k \in 1..Len(ColumnSpec(v))} \ {NULL}

RECURSIVE PairsOf(_, _, _)
\* The declared endpoint pairs of row r from the k-th on, those with a
\* null endpoint left out.
PairsOf(v, r, k) ==
  IF k > Len(EdgeSpec(v)) THEN <<>>
  ELSE LET e == <<r[EdgeSpec(v)[k][1]], r[EdgeSpec(v)[k][2]]>>
       IN (IF BothNonNull(e) THEN <<e>> ELSE <<>>) \o PairsOf(v, r, k + 1)

RECURSIVE ExpectedEdges(_, _)
ExpectedEdges(v, rs) ==
  IF rs = <<>> THEN <<>> ELSE PairsOf(v, Head(rs), 1) \o ExpectedEdges(v, Tail(rs))

\* C9: the node set has one node per distinct non-null id of the consumed
\* rows, and the edge list keeps, in row order and with repetitions, one
\* edge per row and declared pair whose endpoints are both non-null.
NodesDedupEdgesKept ==
  InAssembly =>
    /\ DOMAIN nodes = IdsIn(view, Consumed)
    /\ SelectSeq(edges, BothNonNull) = ExpectedEdges(view, Consumed)

\* Scenario D: two rows share a grant and differ in organization.
SharedGrantTwoOrgs ==
  /\ Assembled
  /\ pc = "done"
  /\ \E j, k \in 1..i :
       /\ j < k
       /\ rows[j].grant_id # NULL
       /\ rows[j].grant_id = rows[k].grant_id
       /\ rows[j].org_id # NULL /\ rows[k].org_id # NULL
       /\ rows[j].org_id # rows[k].org_id
       /\ Len(SelectSeq(edges, LAMBDA e : e[1] = rows[j].grant_id)) >= 2

\* C10 (as stated): a node added from a row whose label column is null is
\* labelled with its group name, any other node with its label column.
LabelFallback ==
  [][(pc = "loop" /\ i' = i + 1) =>
       \A id \in (DOMAIN nodes') \ (DOMAIN nodes) :
         LET r == rows[i']
             col == ColumnSpec(view)[FirstCol(r, id)]
         IN nodes'[id].label = ClaimedLabel(r, col)]_vars

\* C10 (amended): a pi, grant, org, funder or system node is labelled with
\* its label column when that is a non-empty string and with its group
\* name when it is null or empty; a theme node with theme_name, else
\* frascati_theme, else "Theme".
LabelFallbackAmended ==
  [][(pc = "loop" /\ i' = i + 1) =>
       \A id \in (DOMAIN nodes') \ (DOMAIN nodes) :
         LET r == rows[i']
             col == ColumnSpec(view)[FirstCol(r, id)]
         IN nodes'[id].label = StoredLabel(r, col)]_vars

\* A node added from a null label column carries its group name, and a
\* theme node added from a null theme_name does not.
FallbackLabelsStored ==
  /\ InAssembly
  /\ \E id \in DOMAIN nodes :
       LET p == FirstOcc(id)
       IN /\ rows[p[1]][ColumnSpec(view)[p[2]][2]] = NoLabel
          /\ nodes[id].label = nodes[id].group
  /\ \E id \in DOMAIN nodes :
       LET p == FirstOcc(id)
       IN /\ rows[p[1]].theme_name = NoLabel
          /\ nodes[id].group = "theme"
          /\ nodes[id].label # "theme"

====
